---- MODULE Spec2Model ----
(***************************************************************************)
(* Attempt submission and scoring of the TOEIC practice app.               *)
(*                                                                         *)
(* The store (tables questions, options, quiz_sessions, selected_options)  *)
(* is shared state; every awaited store call of a request handler is one   *)
(* step of that request, so that two requests interleave exactly at the    *)
(* awaits of the source.                                                   *)
(***************************************************************************)
EXTENDS Integers, Sequences, FiniteSets, Bags, TLC

\* ------------------------------------------------------------------------
\* Bounds of the model
\* ------------------------------------------------------------------------
NumQuestions == 2
NumOptions == 2
MaxLen == 2

\* ------------------------------------------------------------------------
\* Nullable values: null is <<>>, a number n is <<n>>
\* ------------------------------------------------------------------------
Null == <<>>

Some(n) == <<n>>

IsNumber(x) == Len(x) = 1

Val(x) == x[1]

\* ------------------------------------------------------------------------
\* Identities
\* ------------------------------------------------------------------------
Caller == "userA"

Users == {"userA", "userB"}

OwnSession == "s1"

SecondSession == "s2"

OtherSession == "s3"

MissingSession == "s0"

Sessions == {OwnSession, SecondSession, OtherSession}

QuizQuestions == 1..NumQuestions

ForeignQuestion == NumQuestions + 1

AllQuestions == QuizQuestions \cup {ForeignQuestion}

OptionId(q, i) == (q - 1) * NumOptions + i + 1

MissingOption == (NumQuestions + 1) * NumOptions + 1

AnswerKeys == [QuizQuestions -> 0..(NumOptions - 1)]

\* ------------------------------------------------------------------------
\* State
\* ------------------------------------------------------------------------
VARIABLES
    answerKey,   \* questions.answer_index of the quiz's questions
    score,       \* quiz_sessions.score, per session (nullable)
    total,       \* quiz_sessions.total_questions, per session (nullable)
    rows,        \* selected_options, per session: a bag of (question, option) rows
    req,         \* the submission requests in flight, per slot
    hist,        \* history of each slot: store before the request, previous request, store calls
    view,        \* the listing pages being rendered, per page
    detail,      \* the page of one quiz session being rendered
    quizSessionsTable,  \* quiz_sessions: id, user_id and quiz_id of each session
    create,      \* the create-session request in flight
    player,      \* QuizSessionPlayer: its state and its requests in flight
    button       \* GenerateQuizButton: its state and the step its click is at

vars == <<answerKey, score, total, rows, req, hist, view, detail, quizSessionsTable, create,
          player, button>>

Slots == {1, 2}

\* ------------------------------------------------------------------------
\* Tables that submissions only read
\* ------------------------------------------------------------------------
questionsTable ==
    {[id |-> q, quiz_id |-> "quizA", answer_index |-> answerKey[q]] : q \in QuizQuestions}
    \cup {[id |-> ForeignQuestion, quiz_id |-> "quizB", answer_index |-> 0]}

optionsTable ==
    {[id |-> OptionId(q, i), question_id |-> q, option_index |-> i] :
        q \in AllQuestions, i \in 0..(NumOptions - 1)}

quizzesTable == {"quizA", "quizB"}

MissingQuiz == "quizX"

\* the sessions that exist before any session is created
SeededQuizSessions ==
    {[id |-> OwnSession, user_id |-> "userA", quiz_id |-> "quizA"],
     [id |-> SecondSession, user_id |-> "userA", quiz_id |-> "quizA"],
     [id |-> OtherSession, user_id |-> "userB", quiz_id |-> "quizA"]}

\* ------------------------------------------------------------------------
\* Helpers
\* ------------------------------------------------------------------------
Range(s) == {s[i] : i \in DOMAIN s}

SeqsUpTo(S, n) == UNION {[1..k -> S] : k \in 0..n}

BagOfSeq(s) == [x \in Range(s) |-> Cardinality({i \in DOMAIN s : s[i] = x})]

MapGet(m, k) == IF k \in DOMAIN m THEN Some(m[k]) ELSE Null

Entry(q, o) == [questionId |-> q, optionId |-> o]

\* ------------------------------------------------------------------------
\* POST /api/quiz_sessions/[sessionId]/selected_options
\* ------------------------------------------------------------------------
QuestionIds(selectedOptions) == [i \in DOMAIN selectedOptions |-> selectedOptions[i].questionId]

UniqueQuestionIds(selectedOptions) == Range(QuestionIds(selectedOptions))

UniqueOptionIds(selectedOptions) == {selectedOptions[i].optionId : i \in DOMAIN selectedOptions}

NoDuplicateCheck(selectedOptions) == FALSE

HasDuplicateQuestion(selectedOptions) ==
    Cardinality(UniqueQuestionIds(selectedOptions)) # Len(QuestionIds(selectedOptions))

QueryQuizSessionOfAnyUser(sessionId, userId) ==
    {s \in quizSessionsTable : s.id = sessionId}

QueryQuizSession(sessionId, userId) ==
    {s \in quizSessionsTable : s.id = sessionId /\ s.user_id = userId}

QueryQuestionsOfAnyQuiz(quizId, ids) ==
    {q \in questionsTable : q.id \in ids}

QueryQuestions(quizId, ids) ==
    {q \in questionsTable : q.quiz_id = quizId /\ q.id \in ids}

QueryOptions(optionIds, questionIds) ==
    {o \in optionsTable : o.id \in optionIds /\ o.question_id \in questionIds}

OptionQuestionMap(options) ==
    [id \in {o.id : o \in options} |-> (CHOOSE o \in options : o.id = id).question_id]

HasMismatchedFirstOption(selectedOptions, options) ==
    /\ selectedOptions # <<>>
    /\ MapGet(OptionQuestionMap(options), selectedOptions[1].optionId)
           # Some(selectedOptions[1].questionId)

NoMismatchCheck(selectedOptions, options) == FALSE

HasMismatchedOption(selectedOptions, options) ==
    \E i \in DOMAIN selectedOptions :
        MapGet(OptionQuestionMap(options), selectedOptions[i].optionId)
            # Some(selectedOptions[i].questionId)

QuestionAnswerMap(questions) ==
    [id \in {q.id : q \in questions} |-> (CHOOSE q \in questions : q.id = id).answer_index]

OptionIndexMap(options) ==
    [id \in {o.id : o \in options} |-> (CHOOSE o \in options : o.id = id).option_index]

RECURSIVE ComputeScoreAtMost(_, _, _)
ComputeScoreAtMost(selectedOptions, questions, options) ==
    IF selectedOptions = <<>> THEN 0
    ELSE LET n == Len(selectedOptions)
             selectedOption == selectedOptions[n]
             answerIndex == MapGet(QuestionAnswerMap(questions), selectedOption.questionId)
             selectedOptionIndex == MapGet(OptionIndexMap(options), selectedOption.optionId)
             score0 == ComputeScoreAtMost(SubSeq(selectedOptions, 1, n - 1), questions, options)
         IN IF IsNumber(answerIndex) /\ IsNumber(selectedOptionIndex)
               /\ Val(selectedOptionIndex) <= Val(answerIndex)
            THEN score0 + 1
            ELSE score0

RECURSIVE ComputeScore(_, _, _)
ComputeScore(selectedOptions, questions, options) ==
    IF selectedOptions = <<>> THEN 0
    ELSE LET n == Len(selectedOptions)
             selectedOption == selectedOptions[n]
             answerIndex == MapGet(QuestionAnswerMap(questions), selectedOption.questionId)
             selectedOptionIndex == MapGet(OptionIndexMap(options), selectedOption.optionId)
             score0 == ComputeScore(SubSeq(selectedOptions, 1, n - 1), questions, options)
         IN IF IsNumber(answerIndex) /\ IsNumber(selectedOptionIndex)
               /\ answerIndex = selectedOptionIndex
            THEN score0 + 1
            ELSE score0

SessionTotalAnswered(quizSession, selectedOptions) ==
    Cardinality(UniqueQuestionIds(selectedOptions))

SessionTotalQuestions(quizSession, selectedOptions) ==
    IF IsNumber(quizSession.total_questions)
    THEN Val(quizSession.total_questions)
    ELSE Cardinality(UniqueQuestionIds(selectedOptions))

NoRequest ==
    [pc |-> "idle", sessionId |-> MissingSession, authed |-> FALSE, body |-> <<>>,
     quizSession |-> Null, questions |-> {}, computedScore |-> 0,
     status |-> 0, error |-> ""]

Respond(r, status, error) ==
    req' = [req EXCEPT ![r].pc = "done", ![r].status = status, ![r].error = error]

Goto(r, pc) == req' = [req EXCEPT ![r].pc = pc]

\* history: the store calls of the request so far, and whether one has failed
Called(r, fail) ==
    hist' = [hist EXCEPT ![r].calls = Append(@, req[r].pc),
                         ![r].failed = @ \/ fail]

Store == [rows |-> rows, score |-> score, total |-> total]

Idle(r) == req[r].pc = "idle"

\* lines 20-78: route parameter, body parsing, duplicate check, authentication
Begin(r, sessionId, parse, body, authed) ==
    /\ Idle(r)
    /\ hist' = [hist EXCEPT ![r] =
                  [pre |-> Some(Store),
                   prev |-> Null,
                   repeat |-> hist[r].prev = Some([sessionId |-> sessionId, body |-> body]),
                   calls |-> <<>>,
                   failed |-> FALSE]]
    /\ LET fresh == [NoRequest EXCEPT !.sessionId = sessionId, !.body = body,
                                      !.authed = authed]
       IN IF parse = "invalid_json"
          THEN req' = [req EXCEPT ![r] = [fresh EXCEPT !.pc = "done", !.status = 400,
                           !.error = "Invalid JSON body."]]
          ELSE IF parse = "invalid_schema"
          THEN req' = [req EXCEPT ![r] = [fresh EXCEPT !.pc = "done", !.status = 400,
                           !.error = "Invalid request body."]]
          ELSE IF HasDuplicateQuestion(body)
          THEN req' = [req EXCEPT ![r] = [fresh EXCEPT !.pc = "done", !.status = 400,
                           !.error = "Each question can only have one selected option."]]
          ELSE IF ~authed
          THEN req' = [req EXCEPT ![r] = [fresh EXCEPT !.pc = "done", !.status = 401,
                           !.error = "Unauthorized."]]
          ELSE req' = [req EXCEPT ![r] = [fresh EXCEPT !.pc = "session"]]
    /\ UNCHANGED <<answerKey, score, total, rows, view, detail, quizSessionsTable, create, player, button>>

SelectSessionLocked(r, fail) ==
    /\ req[r].pc = "session"
    /\ LET found == QueryQuizSession(req[r].sessionId, Caller)
       IN IF fail
          THEN Respond(r, 500, "Failed to verify quiz session.")
          ELSE IF found = {} \/ score[req[r].sessionId] # Null
          THEN Respond(r, 404, "Quiz session not found.")
          ELSE LET s == CHOOSE s \in found : TRUE
                   quizSession == [id |-> s.id, quiz_id |-> s.quiz_id,
                                   total_questions |-> total[s.id]]
               IN req' = [req EXCEPT
                            ![r].quizSession = Some(quizSession),
                            ![r].pc = IF UniqueQuestionIds(req[r].body) # {}
                                      THEN "questions" ELSE "delete"]
    /\ UNCHANGED <<answerKey, score, total, rows, view, detail, quizSessionsTable, create, player, button>>
    /\ Called(r, fail)

\* lines 80-99: the session of the caller
SelectSession(r, fail) ==
    /\ req[r].pc = "session"
    /\ LET found == QueryQuizSession(req[r].sessionId, Caller)
       IN IF fail
          THEN Respond(r, 500, "Failed to verify quiz session.")
          ELSE IF found = {}
          THEN Respond(r, 404, "Quiz session not found.")
          ELSE LET s == CHOOSE s \in found : TRUE
                   quizSession == [id |-> s.id, quiz_id |-> s.quiz_id,
                                   total_questions |-> total[s.id]]
               IN req' = [req EXCEPT
                            ![r].quizSession = Some(quizSession),
                            ![r].pc = IF UniqueQuestionIds(req[r].body) # {}
                                      THEN "questions" ELSE "delete"]
    /\ UNCHANGED <<answerKey, score, total, rows, view, detail, quizSessionsTable, create, player, button>>
    /\ Called(r, fail)

SelectQuestionsUnchecked(r, fail) ==
    /\ req[r].pc = "questions"
    /\ LET uniqueQuestionIds == UniqueQuestionIds(req[r].body)
           questions == QueryQuestions(Val(req[r].quizSession).quiz_id, uniqueQuestionIds)
       IN IF fail
          THEN Respond(r, 500, "Failed to validate questions.")
          ELSE req' = [req EXCEPT ![r].questions = questions, ![r].pc = "options"]
    /\ UNCHANGED <<answerKey, score, total, rows, view, detail, quizSessionsTable, create, player, button>>
    /\ Called(r, fail)

\* lines 103-122: the submitted questions that belong to the session's quiz
SelectQuestions(r, fail) ==
    /\ req[r].pc = "questions"
    /\ LET uniqueQuestionIds == UniqueQuestionIds(req[r].body)
           questions == QueryQuestions(Val(req[r].quizSession).quiz_id, uniqueQuestionIds)
       IN IF fail
          THEN Respond(r, 500, "Failed to validate questions.")
          ELSE IF Cardinality(questions) # Cardinality(uniqueQuestionIds)
          THEN Respond(r, 400, "One or more questions do not belong to this quiz session.")
          ELSE req' = [req EXCEPT ![r].questions = questions, ![r].pc = "options"]
    /\ UNCHANGED <<answerKey, score, total, rows, view, detail, quizSessionsTable, create, player, button>>
    /\ Called(r, fail)

SelectOptionsUncounted(r, fail) ==
    /\ req[r].pc = "options"
    /\ LET selectedOptions == req[r].body
           uniqueOptionIds == UniqueOptionIds(selectedOptions)
           options == QueryOptions(uniqueOptionIds, UniqueQuestionIds(selectedOptions))
       IN IF fail
          THEN Respond(r, 500, "Failed to validate options.")
          ELSE IF HasMismatchedOption(selectedOptions, options)
          THEN Respond(r, 400, "One or more options do not belong to their provided question.")
          ELSE req' = [req EXCEPT
                         ![r].computedScore =
                             ComputeScore(selectedOptions, req[r].questions, options),
                         ![r].pc = "delete"]
    /\ UNCHANGED <<answerKey, score, total, rows, view, detail, quizSessionsTable, create, player, button>>
    /\ Called(r, fail)

\* lines 124-184: the submitted options of the submitted questions, and the score
SelectOptions(r, fail) ==
    /\ req[r].pc = "options"
    /\ LET selectedOptions == req[r].body
           uniqueOptionIds == UniqueOptionIds(selectedOptions)
           options == QueryOptions(uniqueOptionIds, UniqueQuestionIds(selectedOptions))
       IN IF fail
          THEN Respond(r, 500, "Failed to validate options.")
          ELSE IF Cardinality(options) # Cardinality(uniqueOptionIds)
          THEN Respond(r, 400, "One or more options do not match the provided questions.")
          ELSE IF HasMismatchedOption(selectedOptions, options)
          THEN Respond(r, 400, "One or more options do not belong to their provided question.")
          ELSE req' = [req EXCEPT
                         ![r].computedScore =
                             ComputeScore(selectedOptions, req[r].questions, options),
                         ![r].pc = "delete"]
    /\ UNCHANGED <<answerKey, score, total, rows, view, detail, quizSessionsTable, create, player, button>>
    /\ Called(r, fail)

DeleteNothing(r, fail) ==
    /\ req[r].pc = "delete"
    /\ IF fail
       THEN Respond(r, 500, "Failed to reset selected options for this session.")
       ELSE Goto(r, IF Len(req[r].body) = 0 THEN "reset" ELSE "insert")
    /\ UNCHANGED <<answerKey, score, total, rows, view, detail, quizSessionsTable, create, player, button>>
    /\ Called(r, fail)

DeleteAllSelectedOptions(r, fail) ==
    /\ req[r].pc = "delete"
    /\ IF fail
       THEN /\ Respond(r, 500, "Failed to reset selected options for this session.")
            /\ UNCHANGED rows
       ELSE /\ rows' = [s \in Sessions |-> EmptyBag]
            /\ Goto(r, IF Len(req[r].body) = 0 THEN "reset" ELSE "insert")
    /\ UNCHANGED <<answerKey, score, total, view, detail, quizSessionsTable, create, player, button>>
    /\ Called(r, fail)

\* lines 186-196: delete the session's selected options
DeleteSelectedOptions(r, fail) ==
    /\ req[r].pc = "delete"
    /\ LET id == Val(req[r].quizSession).id
       IN IF fail
          THEN /\ Respond(r, 500, "Failed to reset selected options for this session.")
               /\ UNCHANGED rows
          ELSE /\ rows' = [rows EXCEPT ![id] = EmptyBag]
               /\ Goto(r, IF Len(req[r].body) = 0 THEN "reset" ELSE "insert")
    /\ UNCHANGED <<answerKey, score, total, view, detail, quizSessionsTable, create, player, button>>
    /\ Called(r, fail)

ResetScoreToZero(r, fail) ==
    /\ req[r].pc = "reset"
    /\ LET id == Val(req[r].quizSession).id
       IN IF fail
          THEN /\ Respond(r, 500, "Failed to reset quiz session score.")
               /\ UNCHANGED score
          ELSE /\ score' = [score EXCEPT ![id] = Some(0)]
               /\ Respond(r, 200, "")
    /\ UNCHANGED <<answerKey, total, rows, view, detail, quizSessionsTable, create, player, button>>
    /\ Called(r, fail)

\* lines 198-217: an empty submission resets the score
ResetScore(r, fail) ==
    /\ req[r].pc = "reset"
    /\ LET id == Val(req[r].quizSession).id
       IN IF fail
          THEN /\ Respond(r, 500, "Failed to reset quiz session score.")
               /\ UNCHANGED score
          ELSE /\ score' = [score EXCEPT ![id] = Null]
               /\ Respond(r, 200, "")
    /\ UNCHANGED <<answerKey, total, rows, view, detail, quizSessionsTable, create, player, button>>
    /\ Called(r, fail)

RowsToInsert(selectedOptions) ==
    [i \in DOMAIN selectedOptions |->
        <<selectedOptions[i].questionId, selectedOptions[i].optionId>>]

\* lines 219-235: insert the submitted rows
InsertSelectedOptionsWithRetry(r, fail) ==
    /\ req[r].pc = "insert"
    /\ LET id == Val(req[r].quizSession).id
       IN IF fail
          THEN UNCHANGED <<req, rows>>
          ELSE /\ rows' = [rows EXCEPT ![id] = @ (+) BagOfSeq(RowsToInsert(req[r].body))]
               /\ Goto(r, "update")
    /\ UNCHANGED <<answerKey, score, total, view, detail, quizSessionsTable, create, player, button>>
    /\ Called(r, fail)

InsertSelectedOptions(r, fail) ==
    /\ req[r].pc = "insert"
    /\ LET id == Val(req[r].quizSession).id
       IN IF fail
          THEN /\ Respond(r, 500, "Failed to save selected options.")
               /\ UNCHANGED rows
          ELSE /\ rows' = [rows EXCEPT ![id] = @ (+) BagOfSeq(RowsToInsert(req[r].body))]
               /\ Goto(r, "update")
    /\ UNCHANGED <<answerKey, score, total, view, detail, quizSessionsTable, create, player, button>>
    /\ Called(r, fail)

UpdateScoreIfPositive(r, fail) ==
    /\ req[r].pc = "update"
    /\ LET quizSession == Val(req[r].quizSession)
       IN IF fail
          THEN /\ Respond(r, 500, "Failed to update quiz session score.")
               /\ UNCHANGED <<score, total>>
          ELSE IF req[r].computedScore = 0
          THEN /\ Respond(r, 200, "")
               /\ UNCHANGED <<score, total>>
          ELSE /\ score' = [score EXCEPT ![quizSession.id] = Some(req[r].computedScore)]
               /\ total' = [total EXCEPT ![quizSession.id] =
                               Some(SessionTotalQuestions(quizSession, req[r].body))]
               /\ Respond(r, 200, "")
    /\ UNCHANGED <<answerKey, rows, view, detail, quizSessionsTable, create, player, button>>
    /\ Called(r, fail)

\* lines 237-263: persist the score and the total
UpdateScore(r, fail) ==
    /\ req[r].pc = "update"
    /\ LET quizSession == Val(req[r].quizSession)
       IN IF fail
          THEN /\ Respond(r, 500, "Failed to update quiz session score.")
               /\ UNCHANGED <<score, total>>
          ELSE /\ score' = [score EXCEPT ![quizSession.id] = Some(req[r].computedScore)]
               /\ total' = [total EXCEPT ![quizSession.id] =
                               Some(SessionTotalQuestions(quizSession, req[r].body))]
               /\ Respond(r, 200, "")
    /\ UNCHANGED <<answerKey, rows, view, detail, quizSessionsTable, create, player, button>>
    /\ Called(r, fail)

\* the response is sent and the handler has returned
Return(r) ==
    /\ req[r].pc = "done"
    /\ req' = [req EXCEPT ![r] = NoRequest]
    /\ hist' = [hist EXCEPT ![r] =
                  [pre |-> Null,
                   prev |-> IF req[r].status = 200
                            THEN Some([sessionId |-> req[r].sessionId, body |-> req[r].body])
                            ELSE Null,
                   repeat |-> FALSE,
                   calls |-> <<>>,
                   failed |-> FALSE]]
    /\ UNCHANGED <<answerKey, score, total, rows, view, detail, quizSessionsTable, create, player, button>>

\* ------------------------------------------------------------------------
\* POST /api/quiz_sessions: create a quiz session
\* ------------------------------------------------------------------------
NoCreate ==
    [pc |-> "idle", quizId |-> "", authed |-> FALSE, questionCount |-> Null,
     status |-> 0, error |-> "", session |-> Null, failed |-> FALSE]

CreateRespond(status, error) ==
    create' = [create EXCEPT !.pc = "done", !.status = status, !.error = error,
                             !.failed = status = 500]

\* the score of a row inserted without score
DefaultScore == Null

CountAllQuestions(quizId) == Cardinality(questionsTable)

\* count: "exact" of the questions of a quiz
CountQuestions(quizId) == Cardinality({q \in questionsTable : q.quiz_id = quizId})

\* lines 15-51: body parsing and authentication
CreateBegin(quizId, parse, authed) ==
    /\ create.pc = "idle"
    /\ LET fresh == [NoCreate EXCEPT !.quizId = quizId, !.authed = authed]
       IN IF parse = "invalid_json"
          THEN create' = [fresh EXCEPT !.pc = "done", !.status = 400,
                                       !.error = "Invalid JSON body."]
          ELSE IF parse = "empty_quiz_id"
          THEN create' = [fresh EXCEPT !.pc = "done", !.status = 400,
                                       !.error = "quizId is required."]
          ELSE IF ~authed
          THEN create' = [fresh EXCEPT !.pc = "done", !.status = 401,
                                       !.error = "Unauthorized."]
          ELSE create' = [fresh EXCEPT !.pc = "quiz"]
    /\ UNCHANGED <<answerKey, score, total, rows, req, hist, view, detail, quizSessionsTable, player, button>>

\* lines 53-71: the quiz
CreateSelectQuiz(fail) ==
    /\ create.pc = "quiz"
    /\ IF fail THEN CreateRespond(500, "Failed to verify quiz.")
       ELSE IF create.quizId \notin quizzesTable THEN CreateRespond(404, "Quiz not found.")
       ELSE create' = [create EXCEPT !.pc = "count"]
    /\ UNCHANGED <<answerKey, score, total, rows, req, hist, view, detail, quizSessionsTable, player, button>>

\* lines 73-83: the number of questions of the quiz
CreateCountQuestions(fail) ==
    /\ create.pc = "count"
    /\ IF fail THEN CreateRespond(500, "Failed to prepare quiz session.")
       ELSE create' = [create EXCEPT !.pc = "insert",
                                     !.questionCount = Some(CountQuestions(create.quizId))]
    /\ UNCHANGED <<answerKey, score, total, rows, req, hist, view, detail, quizSessionsTable, player, button>>

CreateInsertSessionNoTotal(fail) ==
    /\ create.pc = "insert"
    /\ IF fail
       THEN /\ CreateRespond(500, "Failed to create quiz session.")
            /\ UNCHANGED <<score, total, quizSessionsTable>>
       ELSE \E id \in Sessions \ {s.id : s \in quizSessionsTable} :
               /\ quizSessionsTable' = quizSessionsTable \cup
                     {[id |-> id, user_id |-> Caller, quiz_id |-> create.quizId]}
               /\ total' = [total EXCEPT ![id] = Null]
               /\ score' = [score EXCEPT ![id] = DefaultScore]
               /\ create' = [create EXCEPT !.pc = "done", !.status = 201,
                                           !.session = Some(id)]
    /\ UNCHANGED <<answerKey, rows, req, hist, view, detail, player, button>>

\* lines 85-107: insert the session of the caller with the count as its total
CreateInsertSession(fail) ==
    /\ create.pc = "insert"
    /\ IF fail
       THEN /\ CreateRespond(500, "Failed to create quiz session.")
            /\ UNCHANGED <<score, total, quizSessionsTable>>
       ELSE \E id \in Sessions \ {s.id : s \in quizSessionsTable} :
               LET totalQuestions == IF IsNumber(create.questionCount)
                                     THEN Val(create.questionCount) ELSE 0
               IN /\ quizSessionsTable' = quizSessionsTable \cup
                        {[id |-> id, user_id |-> Caller, quiz_id |-> create.quizId]}
                  /\ total' = [total EXCEPT ![id] = Some(totalQuestions)]
                  /\ score' = [score EXCEPT ![id] = DefaultScore]
                  /\ create' = [create EXCEPT !.pc = "done", !.status = 201,
                                              !.session = Some(id)]
    /\ UNCHANGED <<answerKey, rows, req, hist, view, detail, player, button>>

CreateReturn ==
    /\ create.pc = "done"
    /\ create' = NoCreate
    /\ UNCHANGED <<answerKey, score, total, rows, req, hist, view, detail, quizSessionsTable, player, button>>

CreateStep(fail) ==
    \/ CreateSelectQuiz(fail)
    \/ CreateCountQuestions(fail)
    \/ CreateInsertSession(fail)

\* ------------------------------------------------------------------------
\* The listing pages: quiz attempts (QuizSessionsContent) and quizzes
\* (QuizzesContent)
\* ------------------------------------------------------------------------
Views == {"quiz_sessions", "quizzes"}

\* the sessions a page lists: the caller's, or those of every quiz
ListedSessions(v) ==
    IF v = "quiz_sessions"
    THEN {s.id : s \in {t \in quizSessionsTable : t.user_id = Caller}}
    ELSE {s.id : s \in quizSessionsTable}

\* failed: history, a read of the reconciliation has failed
NoView ==
    [pc |-> "idle", sessions |-> <<>>, selectedOptions |-> <<>>,
     fallbackScoreBySessionId |-> <<>>, page |-> "", failed |-> FALSE]

SessionsMissingScore(sessions) == {id \in DOMAIN sessions : sessions[id].score = Null}

RECURSIVE ReduceRowsAtMost(_, _, _)
ReduceRowsAtMost(sessionRows, questionAnswerById, optionIndexById) ==
    IF sessionRows = EmptyBag THEN 0
    ELSE LET row == CHOOSE x \in BagToSet(sessionRows) : TRUE
             answerIndex == MapGet(questionAnswerById, row[1])
             selectedOptionIndex == MapGet(optionIndexById, row[2])
             rest == [x \in BagToSet(sessionRows) \ {row} |-> sessionRows[x]]
             accumulator == ReduceRowsAtMost(rest, questionAnswerById, optionIndexById)
         IN IF IsNumber(answerIndex) /\ IsNumber(selectedOptionIndex)
               /\ Val(selectedOptionIndex) <= Val(answerIndex)
            THEN accumulator + sessionRows[row]
            ELSE accumulator

RECURSIVE ReduceRows(_, _, _)
ReduceRows(sessionRows, questionAnswerById, optionIndexById) ==
    IF sessionRows = EmptyBag THEN 0
    ELSE LET row == CHOOSE x \in BagToSet(sessionRows) : TRUE
             answerIndex == MapGet(questionAnswerById, row[1])
             selectedOptionIndex == MapGet(optionIndexById, row[2])
             rest == [x \in BagToSet(sessionRows) \ {row} |-> sessionRows[x]]
             accumulator == ReduceRows(rest, questionAnswerById, optionIndexById)
         IN IF IsNumber(answerIndex) /\ IsNumber(selectedOptionIndex)
               /\ answerIndex = selectedOptionIndex
            THEN accumulator + sessionRows[row]
            ELSE accumulator

TrustsAnyCount(totalQuestions, sessionRows) ==
    IsNumber(totalQuestions) /\ Val(totalQuestions) > 0

\* the guard of the fallback: a positive total that the number of rows equals
TrustsFallback(totalQuestions, sessionRows) ==
    ~ \/ ~IsNumber(totalQuestions)
      \/ Val(totalQuestions) <= 0
      \/ BagCardinality(sessionRows) # Val(totalQuestions)

FallbackScores(sessions, selectedOptions, questionAnswerById, optionIndexById) ==
    [id \in {i \in SessionsMissingScore(sessions) :
                TrustsFallback(sessions[i].total_questions, selectedOptions[i])} |->
        [score |-> ReduceRows(selectedOptions[id], questionAnswerById, optionIndexById),
         totalQuestions |-> Val(sessions[id].total_questions)]]

\* the score text of a listed session
ScoreText(v, id) ==
    LET session == view[v].sessions[id]
        fallbackScore == MapGet(view[v].fallbackScoreBySessionId, id)
    IN IF session.score # Null /\ session.total_questions # Null
       THEN [kind |-> "persisted", score |-> Val(session.score),
             total |-> Val(session.total_questions)]
       ELSE IF fallbackScore # Null
       THEN [kind |-> "fallback", score |-> Val(fallbackScore).score,
             total |-> Val(fallbackScore).totalQuestions]
       ELSE [kind |-> "Not graded yet", score |-> 0, total |-> 0]

\* the sessions with their score and total
LoadSessions(v, fail) ==
    /\ view[v].pc = "idle"
    /\ IF fail /\ v = "quiz_sessions"
       THEN view' = [view EXCEPT ![v].pc = "done", ![v].page = "Failed to load sessions."]
       ELSE LET sessions == IF fail THEN <<>>
                            ELSE [id \in ListedSessions(v) |->
                                    [score |-> score[id], total_questions |-> total[id]]]
            IN view' = [view EXCEPT
                          ![v].sessions = sessions,
                          ![v].pc = IF SessionsMissingScore(sessions) # {}
                                    THEN "selected" ELSE "done",
                          ![v].page = IF SessionsMissingScore(sessions) # {} THEN ""
                                      ELSE IF fail THEN "Failed to load quizzes."
                                      ELSE "list"]
    /\ UNCHANGED <<answerKey, score, total, rows, req, hist, detail, quizSessionsTable, create, player, button>>

LoadSelectedOptionsOrError(v, fail) ==
    /\ view[v].pc = "selected"
    /\ IF fail
       THEN view' = [view EXCEPT ![v].pc = "done", ![v].failed = TRUE,
                                 ![v].page = "Failed to load sessions."]
       ELSE view' = [view EXCEPT
                       ![v].selectedOptions =
                           [id \in SessionsMissingScore(view[v].sessions) |-> rows[id]],
                       ![v].pc = "answers"]
    /\ UNCHANGED <<answerKey, score, total, rows, req, hist, detail, quizSessionsTable, create, player, button>>

\* the selected options of the sessions without score
LoadSelectedOptions(v, fail) ==
    /\ view[v].pc = "selected"
    /\ IF fail
       THEN view' = [view EXCEPT ![v].pc = "done", ![v].page = "list", ![v].failed = TRUE]
       ELSE view' = [view EXCEPT
                       ![v].selectedOptions =
                           [id \in SessionsMissingScore(view[v].sessions) |-> rows[id]],
                       ![v].pc = "answers"]
    /\ UNCHANGED <<answerKey, score, total, rows, req, hist, detail, quizSessionsTable, create, player, button>>

LoadAnswersAndPersist(v, failQuestions, failOptions) ==
    /\ view[v].pc = "answers"
    /\ LET selectedOptions == view[v].selectedOptions
           selected == UNION {BagToSet(selectedOptions[id]) : id \in DOMAIN selectedOptions}
           questionsData == {q \in questionsTable : q.id \in {row[1] : row \in selected}}
           optionsData == {o \in optionsTable : o.id \in {row[2] : row \in selected}}
           fallback == FallbackScores(view[v].sessions, selectedOptions,
                                      QuestionAnswerMap(questionsData),
                                      OptionIndexMap(optionsData))
       IN /\ view' = [view EXCEPT ![v].fallbackScoreBySessionId = fallback,
                                  ![v].pc = "done", ![v].page = "list"]
          /\ score' = [id \in Sessions |->
                         IF id \in DOMAIN fallback THEN Some(fallback[id].score)
                         ELSE score[id]]
    /\ UNCHANGED <<answerKey, total, rows, req, hist, detail, quizSessionsTable, create, player, button>>

\* the answer key and the option positions of the selected options, and the
\* fallback scores
LoadAnswers(v, failQuestions, failOptions) ==
    /\ view[v].pc = "answers"
    /\ LET selectedOptions == view[v].selectedOptions
           selected == UNION {BagToSet(selectedOptions[id]) : id \in DOMAIN selectedOptions}
           questionIds == {row[1] : row \in selected}
           optionIds == {row[2] : row \in selected}
           questionsData == {q \in questionsTable : q.id \in questionIds}
           optionsData == {o \in optionsTable : o.id \in optionIds}
       IN IF (failQuestions /\ questionIds # {}) \/ (failOptions /\ optionIds # {})
          THEN view' = [view EXCEPT ![v].pc = "done", ![v].page = "list",
                                    ![v].failed = TRUE]
          ELSE view' = [view EXCEPT
                          ![v].fallbackScoreBySessionId =
                              FallbackScores(view[v].sessions, selectedOptions,
                                             QuestionAnswerMap(questionsData),
                                             OptionIndexMap(optionsData)),
                          ![v].pc = "done",
                          ![v].page = "list"]
    /\ UNCHANGED <<answerKey, score, total, rows, req, hist, detail, quizSessionsTable, create, player, button>>

\* ------------------------------------------------------------------------
\* The page of one quiz session, /quiz_sessions/[id]
\* ------------------------------------------------------------------------
Page(kind) == [kind |-> kind, score |-> 0, total |-> 0]

NoDetail ==
    [pc |-> "idle", quizSession |-> Null, questions |-> {}, options |-> {},
     page |-> Page("")]

Show(page) == detail' = [detail EXCEPT !.pc = "done", !.page = page]

\* the maps that the (question, option) rows make, whatever their order: the
\* last row of a question is the one the map keeps
SelectedOptionMaps(sessionRows) ==
    LET selected == BagToSet(sessionRows)
    IN {m \in [{row[1] : row \in selected} -> {row[2] : row \in selected}] :
           \A q \in DOMAIN m : <<q, m[q]>> \in selected}

\* lines 91-169: the score the result page shows
QuizSessionResult(questions, options, selectedOptionByQuestionId) ==
    LET OptionsOf(question) == {o \in options : o.question_id = question.id}
        isCorrect(question) ==
            LET selectedOptionId == MapGet(selectedOptionByQuestionId, question.id)
                selectedOption ==
                    {o \in OptionsOf(question) : Some(o.id) = selectedOptionId}
                correctOption ==
                    {o \in OptionsOf(question) : o.option_index = question.answer_index}
            IN selectedOption # {} /\ correctOption # {}
               /\ \E a \in selectedOption, b \in correctOption : a.id = b.id
    IN [kind |-> "result",
        score |-> Cardinality({q \in questions : isCorrect(q)}),
        total |-> Cardinality(questions)]

\* lines 182-208: the caller and the quiz session
DetailLoadSession(id, authed, fail) ==
    /\ detail.pc = "idle"
    /\ IF ~authed THEN Show(Page("/auth/login"))
       ELSE IF fail THEN Show(Page("Failed to load quiz session."))
       ELSE LET found == QueryQuizSession(id, Caller)
            IN IF found = {} THEN Show(Page("Quiz session not found."))
               ELSE detail' = [detail EXCEPT
                                 !.pc = "questions",
                                 !.quizSession =
                                     Some([id |-> id,
                                           quiz_id |-> (CHOOSE s \in found : TRUE).quiz_id])]
    /\ UNCHANGED <<answerKey, score, total, rows, req, hist, view, quizSessionsTable, create, player, button>>

\* lines 210-226: the questions of the quiz
DetailLoadQuestions(fail) ==
    /\ detail.pc = "questions"
    /\ LET questions ==
               {q \in questionsTable : q.quiz_id = Val(detail.quizSession).quiz_id}
       IN IF fail THEN Show(Page("Failed to load questions."))
          ELSE IF Cardinality(questions) = 0
          THEN Show(Page("No questions found for this quiz session."))
          ELSE detail' = [detail EXCEPT !.pc = "options", !.questions = questions]
    /\ UNCHANGED <<answerKey, score, total, rows, req, hist, view, quizSessionsTable, create, player, button>>

\* lines 228-240: the options of the questions
DetailLoadOptions(fail) ==
    /\ detail.pc = "options"
    /\ LET questionIds == {q.id : q \in detail.questions}
       IN IF fail THEN Show(Page("Failed to load options."))
          ELSE detail' = [detail EXCEPT
                            !.pc = "selected",
                            !.options = {o \in optionsTable : o.question_id \in questionIds}]
    /\ UNCHANGED <<answerKey, score, total, rows, req, hist, view, quizSessionsTable, create, player, button>>

\* lines 242-304: the selected options, and the result or the player
DetailLoadSelectedOptions(fail) ==
    /\ detail.pc = "selected"
    /\ IF fail THEN Show(Page("Failed to load selected options."))
       ELSE \E selectedOptionByQuestionId \in
                    SelectedOptionMaps(rows[Val(detail.quizSession).id]) :
               LET quizQuestions == detail.questions
                   hasSubmittedAnswers ==
                       /\ Cardinality(DOMAIN selectedOptionByQuestionId)
                              = Cardinality(quizQuestions)
                       /\ Cardinality(quizQuestions) > 0
               IN IF hasSubmittedAnswers
                  THEN Show(QuizSessionResult(quizQuestions, detail.options,
                                              selectedOptionByQuestionId))
                  ELSE Show(Page("player"))
    /\ UNCHANGED <<answerKey, score, total, rows, req, hist, view, quizSessionsTable, create, player, button>>

DetailStep(fail) ==
    \/ DetailLoadQuestions(fail)
    \/ DetailLoadOptions(fail)
    \/ DetailLoadSelectedOptions(fail)

\* ------------------------------------------------------------------------
\* QuizSessionPlayer: the questions of a session one at a time, and the
\* submission of the selected options at the last one
\* ------------------------------------------------------------------------
\* a response as a client sees it: the fetch threw, or a response came with
\* its ok flag and the error and quizId fields of its JSON (null when the body
\* is no JSON or the field is no string)
Threw(message) ==
    [threw |-> TRUE, ok |-> FALSE, message |-> message, error |-> Null, quizId |-> Null]

Response(ok, error, quizId) ==
    [threw |-> FALSE, ok |-> ok, message |-> "", error |-> error, quizId |-> quizId]

\* the questions of a quiz in the order of the page, each with its options
QuizSessionQuestions(quizId) ==
    LET ids == {q.id : q \in {x \in questionsTable : x.quiz_id = quizId}}
        order == CHOOSE f \in [1..Cardinality(ids) -> ids] :
                    \A i, j \in 1..Cardinality(ids) : i < j => f[i] < f[j]
    IN [i \in 1..Cardinality(ids) |->
          [id |-> order[i],
           options |-> {o.id : o \in {x \in optionsTable : x.question_id = order[i]}}]]

\* fetches: the bodies of the requests in flight; replaced: router.replace
\* has been called
NoPlayer ==
    [mounted |-> FALSE, sessionId |-> "", questions |-> <<>>,
     currentQuestionIndex |-> 0, selectedOptionIds |-> <<>>,
     isSubmitting |-> FALSE, errorMessage |-> Null,
     fetches |-> <<>>, replaced |-> FALSE]

\* part_004: the page of a session with questions that is not answered in
\* full shows the player
RenderPlayer(sessionId) ==
    /\ ~player.mounted
    /\ \E s \in {t \in quizSessionsTable : t.id = sessionId /\ t.user_id = Caller} :
          LET questions == QuizSessionQuestions(s.quiz_id)
              answered == {row[1] : row \in BagToSet(rows[sessionId])}
          IN /\ Len(questions) # 0
             /\ Cardinality(answered) # Len(questions)
             /\ player' = [NoPlayer EXCEPT !.mounted = TRUE, !.sessionId = sessionId,
                                           !.questions = questions]
    /\ UNCHANGED <<answerKey, score, total, rows, req, hist, view, detail,
                   quizSessionsTable, create, button>>

\* lines 69-79: what a render of the player derives from its state
CurrentQuestion == player.questions[player.currentQuestionIndex + 1]

SelectedOptionId == MapGet(player.selectedOptionIds, CurrentQuestion.id)

IsLastQuestion == player.currentQuestionIndex = Len(player.questions) - 1

\* lines 81-87: a click on an option of the current question
HandleSelectOption(optionId) ==
    /\ player.mounted
    /\ optionId \in CurrentQuestion.options
    /\ player' = [player EXCEPT
                    !.errorMessage = Null,
                    !.selectedOptionIds = (CurrentQuestion.id :> optionId) @@ @]
    /\ UNCHANGED <<answerKey, score, total, rows, req, hist, view, detail,
                   quizSessionsTable, create, button>>

\* lines 103-116: the body of the request, null when a question has no option
SelectedOptions ==
    [i \in DOMAIN player.questions |->
        LET question == player.questions[i]
            optionId == IF question.id \in DOMAIN player.selectedOptionIds
                        THEN Some(player.selectedOptionIds[question.id])
                        ELSE IF question.id = CurrentQuestion.id THEN SelectedOptionId
                        ELSE Null
        IN IF optionId = Null THEN Null
           ELSE Some(Entry(question.id, Val(optionId)))]

HandleNextWithoutSelection ==
    /\ player.mounted
    /\ ~player.isSubmitting
    /\ IF ~IsLastQuestion
       THEN player' = [player EXCEPT !.currentQuestionIndex = @ + 1]
       ELSE IF \E i \in DOMAIN SelectedOptions : SelectedOptions[i] = Null
       THEN player' = [player EXCEPT
                         !.isSubmitting = FALSE,
                         !.errorMessage =
                             Some("Please answer every question before finishing.")]
       ELSE player' = [player EXCEPT
                         !.isSubmitting = TRUE,
                         !.errorMessage = Null,
                         !.fetches = Append(@, [i \in DOMAIN SelectedOptions |->
                                                  Val(SelectedOptions[i])])]
    /\ UNCHANGED <<answerKey, score, total, rows, req, hist, view, detail,
                   quizSessionsTable, create, button>>

HandleNextWhileSubmitting ==
    /\ player.mounted
    /\ SelectedOptionId # Null
    /\ IF ~IsLastQuestion
       THEN player' = [player EXCEPT !.currentQuestionIndex = @ + 1]
       ELSE IF \E i \in DOMAIN SelectedOptions : SelectedOptions[i] = Null
       THEN player' = [player EXCEPT
                         !.isSubmitting = FALSE,
                         !.errorMessage =
                             Some("Please answer every question before finishing.")]
       ELSE player' = [player EXCEPT
                         !.isSubmitting = TRUE,
                         !.errorMessage = Null,
                         !.fetches = Append(@, [i \in DOMAIN SelectedOptions |->
                                                  Val(SelectedOptions[i])])]
    /\ UNCHANGED <<answerKey, score, total, rows, req, hist, view, detail,
                   quizSessionsTable, create, button>>

\* lines 89-127: a click on Next Question or Finish Quiz, up to the request
HandleNext ==
    /\ player.mounted
    /\ SelectedOptionId # Null
    /\ ~player.isSubmitting
    /\ IF ~IsLastQuestion
       THEN player' = [player EXCEPT !.currentQuestionIndex = @ + 1]
       ELSE IF \E i \in DOMAIN SelectedOptions : SelectedOptions[i] = Null
       THEN player' = [player EXCEPT
                         !.isSubmitting = FALSE,
                         !.errorMessage =
                             Some("Please answer every question before finishing.")]
       ELSE player' = [player EXCEPT
                         !.isSubmitting = TRUE,
                         !.errorMessage = Null,
                         !.fetches = Append(@, [i \in DOMAIN SelectedOptions |->
                                                  Val(SelectedOptions[i])])]
    /\ UNCHANGED <<answerKey, score, total, rows, req, hist, view, detail,
                   quizSessionsTable, create, button>>

\* the responses of the submission endpoint, and a fetch that throws
PlayerResponses ==
    {Threw("Failed to fetch"),
     Response(TRUE, Null, Null),
     Response(FALSE, Some("Failed to save selected options."), Null),
     Response(FALSE, Some("Quiz session not found."), Null),
     Response(FALSE, Null, Null)}

\* lines 128-146: the response arrives, or the fetch throws
HandleNextSettled(response) ==
    /\ player.fetches # <<>>
    /\ player' = [player EXCEPT
                    !.fetches = Tail(@),
                    !.replaced = @ \/ (~response.threw /\ response.ok),
                    !.errorMessage =
                        IF response.threw THEN Some(response.message)
                        ELSE IF ~response.ok
                        THEN IF response.error # Null THEN response.error
                             ELSE Some("Failed to save selected options.")
                        ELSE @,
                    !.isSubmitting = FALSE]
    /\ UNCHANGED <<answerKey, score, total, rows, req, hist, view, detail,
                   quizSessionsTable, create, button>>

\* ------------------------------------------------------------------------
\* GenerateQuizButton: generate a quiz, save it, go to its page
\* ------------------------------------------------------------------------
\* pc: the request the click waits for; generateResponse, saveResponse,
\* pushed: the responses and the navigation of the last click
NoButton ==
    [pc |-> "idle", isGenerating |-> FALSE, errorMessage |-> Null,
     generateResponse |-> Null, saveResponse |-> Null, pushed |-> Null]

ButtonResponses(default) ==
    {Threw("Failed to fetch"),
     Response(TRUE, Null, Some("quizC")),
     Response(TRUE, Null, Some("")),
     Response(TRUE, Null, Null),
     Response(FALSE, Some(default), Null),
     Response(FALSE, Some("Invalid JSON body."), Null),
     Response(FALSE, Null, Null)}

\* the message of the error thrown for a response, null when none is thrown
ThrownFor(response, default) ==
    IF response.threw THEN Some(response.message)
    ELSE IF ~response.ok
    THEN IF response.error # Null THEN response.error ELSE Some(default)
    ELSE Null

\* lines 42-55 and 96: a click on the enabled button sends the generate request
HandleGenerateQuiz ==
    /\ ~button.isGenerating
    /\ button' = [NoButton EXCEPT !.pc = "generate", !.isGenerating = TRUE]
    /\ UNCHANGED <<answerKey, score, total, rows, req, hist, view, detail,
                   quizSessionsTable, create, player>>

GenerateSettledIgnoringOk(response) ==
    /\ button.pc = "generate"
    /\ IF response.threw
       THEN button' = [button EXCEPT !.pc = "idle", !.isGenerating = FALSE,
                                     !.generateResponse = Some(response),
                                     !.errorMessage = Some(response.message)]
       ELSE button' = [button EXCEPT !.pc = "save", !.generateResponse = Some(response)]
    /\ UNCHANGED <<answerKey, score, total, rows, req, hist, view, detail,
                   quizSessionsTable, create, player>>

\* lines 47-70: the generate response arrives, or the fetch throws; the save
\* request is sent
GenerateSettled(response) ==
    /\ button.pc = "generate"
    /\ LET thrown == ThrownFor(response, "Failed to generate quiz.")
       IN IF thrown # Null
          THEN button' = [button EXCEPT !.pc = "idle", !.isGenerating = FALSE,
                                        !.generateResponse = Some(response),
                                        !.errorMessage = thrown]
          ELSE button' = [button EXCEPT !.pc = "save", !.generateResponse = Some(response)]
    /\ UNCHANGED <<answerKey, score, total, rows, req, hist, view, detail,
                   quizSessionsTable, create, player>>

\* lines 64-91: the save response arrives, or the fetch throws; the quiz page
\* is pushed
SaveSettled(response) ==
    /\ button.pc = "save"
    /\ LET thrown == ThrownFor(response, "Failed to save quiz.")
           quizId == response.quizId
       IN IF thrown # Null
          THEN button' = [button EXCEPT !.pc = "idle", !.isGenerating = FALSE,
                                        !.saveResponse = Some(response),
                                        !.errorMessage = thrown]
          ELSE IF quizId = Null \/ quizId = Some("")
          THEN button' = [button EXCEPT !.pc = "idle", !.isGenerating = FALSE,
                                        !.saveResponse = Some(response),
                                        !.errorMessage = Some("Quiz ID was not returned.")]
          ELSE button' = [button EXCEPT !.pc = "idle", !.isGenerating = FALSE,
                                        !.saveResponse = Some(response),
                                        !.pushed = quizId]
    /\ UNCHANGED <<answerKey, score, total, rows, req, hist, view, detail,
                   quizSessionsTable, create, player>>

\* ------------------------------------------------------------------------
\* Inputs
\* ------------------------------------------------------------------------
\* a question of the quiz with one of its own options
OwnEntries == {Entry(q, OptionId(q, i)) : q \in QuizQuestions, i \in 0..(NumOptions - 1)}

\* a question of the quiz with an option of the next question, of another quiz's
\* question or of no question at all; a question of another quiz
BadEntries ==
    {Entry(q, OptionId((q % NumQuestions) + 1, 0)) : q \in QuizQuestions}
    \cup {Entry(1, OptionId(ForeignQuestion, 0)),
          Entry(1, MissingOption),
          Entry(ForeignQuestion, OptionId(ForeignQuestion, 0)),
          Entry(ForeignQuestion, OptionId(1, 0))}

AnyBodies == SeqsUpTo(OwnEntries \cup BadEntries, MaxLen)

\* the answer sets the endpoint accepts, with the questions in their order or
\* in the reverse order
ValidBodies ==
    {b \in SeqsUpTo(OwnEntries, MaxLen) :
        /\ ~HasDuplicateQuestion(b)
        /\ \/ \A i, j \in DOMAIN b : i < j => b[i].questionId < b[j].questionId
           \/ \A i, j \in DOMAIN b : i < j => b[i].questionId > b[j].questionId}

\* ------------------------------------------------------------------------
\* Initial states
\* ------------------------------------------------------------------------
\* a session as the create-session endpoint leaves it
Created == [rows |-> EmptyBag, score |-> Null, total |-> Some(NumQuestions)]

\* a session from before scoring was added: no score, no total, maybe answers
Legacy ==
    {[rows |-> EmptyBag, score |-> Null, total |-> Null],
     [rows |-> SetToBag({<<q, OptionId(q, 0)>> : q \in QuizQuestions}),
      score |-> Null, total |-> Null]}

InitStore(own) ==
    /\ answerKey \in AnswerKeys
    /\ rows = [s \in Sessions |-> IF s = OwnSession THEN own.rows ELSE EmptyBag]
    /\ score = [s \in Sessions |-> IF s = OwnSession THEN own.score ELSE Null]
    /\ total = [s \in Sessions |-> IF s = OwnSession THEN own.total ELSE Some(NumQuestions)]
    /\ quizSessionsTable = SeededQuizSessions

InitRequests ==
    /\ req = [r \in Slots |-> NoRequest]
    /\ hist = [r \in Slots |-> [pre |-> Null, prev |-> Null, repeat |-> FALSE,
                                calls |-> <<>>, failed |-> FALSE]]
    /\ view = [v \in Views |-> NoView]
    /\ detail = NoDetail
    /\ create = NoCreate
    /\ player = NoPlayer
    /\ button = NoButton

Init ==
    /\ \E own \in {Created} \cup Legacy : InitStore(own)
    /\ answerKey \in {[q \in QuizQuestions |-> q % NumOptions], [q \in QuizQuestions |-> 0]}
    /\ InitRequests

\* ------------------------------------------------------------------------
\* One request at a time of the owner to the own session, with a valid body;
\* every store call may fail
\* ------------------------------------------------------------------------
Step(r, fail) ==
    \/ SelectSession(r, fail)
    \/ SelectQuestions(r, fail)
    \/ SelectOptions(r, fail)
    \/ DeleteSelectedOptions(r, fail)
    \/ ResetScore(r, fail)
    \/ InsertSelectedOptions(r, fail)
    \/ UpdateScore(r, fail)

Next ==
    \/ Idle(1) /\ \E body \in ValidBodies : Begin(1, OwnSession, "ok", body, TRUE)
    \/ \E fail \in BOOLEAN : Step(1, fail)
    \/ Return(1)

Spec == Init /\ [][Next]_vars

\* ------------------------------------------------------------------------
\* One request at a time of any caller to any session, with any body
\* ------------------------------------------------------------------------
InitValidate ==
    /\ InitStore(Created)
    /\ answerKey = [q \in QuizQuestions |-> q % NumOptions]
    /\ InitRequests

NextValidate ==
    \/ Idle(1) /\ \E sessionId \in {OwnSession, OtherSession, MissingSession}, authed \in BOOLEAN :
          \/ \E body \in AnyBodies : Begin(1, sessionId, "ok", body, authed)
          \/ \E parse \in {"invalid_json", "invalid_schema"} :
                Begin(1, sessionId, parse, <<>>, authed)
    \/ Step(1, FALSE)
    \/ Return(1)

SpecValidate == InitValidate /\ [][NextValidate]_vars

\* ------------------------------------------------------------------------
\* Two requests of the owner to the own session, one per slot, with valid
\* bodies, interleaved at their store calls
\* ------------------------------------------------------------------------
InitConc ==
    /\ \E own \in {Created} \cup Legacy : InitStore(own)
    /\ answerKey = [q \in QuizQuestions |-> q % NumOptions]
    /\ InitRequests

NextConc ==
    \E r \in Slots :
        \/ Idle(r) /\ \E body \in ValidBodies : Begin(r, OwnSession, "ok", body, TRUE)
        \/ Step(r, FALSE)

SpecConc == InitConc /\ [][NextConc]_vars

\* ------------------------------------------------------------------------
\* Two requests of the owner to two sessions of theirs, interleaved at their
\* store calls: any body to the own session (slot 1), a valid body to the
\* second session (slot 2); every store call may fail
\* ------------------------------------------------------------------------
OrderedBodies ==
    {b \in ValidBodies :
        \A i, j \in DOMAIN b : i < j => b[i].questionId < b[j].questionId}

RejectedBodies == {<<e>> : e \in BadEntries}

NextTwo ==
    \/ Idle(1) /\ \E body \in OrderedBodies \cup RejectedBodies :
          Begin(1, OwnSession, "ok", body, TRUE)
    \/ Idle(2) /\ \E body \in OrderedBodies : Begin(2, SecondSession, "ok", body, TRUE)
    \/ \E r \in Slots, fail \in BOOLEAN : Step(r, fail)

SpecTwo == InitValidate /\ [][NextTwo]_vars

\* ------------------------------------------------------------------------
\* One request at a time of the owner to the own session, with a valid answer
\* set, a rejected one, or a valid entry followed by a bad one; every store
\* call may fail
\* ------------------------------------------------------------------------
MixedBodies == {<<e, bad>> : e \in OwnEntries, bad \in BadEntries}

NextRows ==
    \/ Idle(1) /\ \E body \in OrderedBodies \cup RejectedBodies \cup MixedBodies :
          Begin(1, OwnSession, "ok", body, TRUE)
    \/ \E fail \in BOOLEAN : Step(1, fail)
    \/ Return(1)

SpecRows == InitValidate /\ [][NextRows]_vars

\* ------------------------------------------------------------------------
\* The same body sent by the caller to the session of another user (slot 1)
\* and to a session that does not exist (slot 2)
\* ------------------------------------------------------------------------
NextProbe ==
    \/ Idle(1) /\ \E body \in AnyBodies : Begin(1, OtherSession, "ok", body, TRUE)
    \/ Idle(2) /\ ~Idle(1) /\ Begin(2, MissingSession, "ok", req[1].body, TRUE)
    \/ \E r \in Slots : SelectSession(r, FALSE)

SpecProbe == InitValidate /\ [][NextProbe]_vars

\* ------------------------------------------------------------------------
\* The caller creates sessions, one request at a time; every store call may
\* fail
\* ------------------------------------------------------------------------
InitCreate ==
    /\ answerKey = [q \in QuizQuestions |-> q % NumOptions]
    /\ rows = [s \in Sessions |-> EmptyBag]
    /\ score = [s \in Sessions |-> Null]
    /\ total = [s \in Sessions |-> IF s = OtherSession THEN Some(NumQuestions) ELSE Null]
    /\ quizSessionsTable = {s \in SeededQuizSessions : s.user_id # Caller}
    /\ InitRequests

NextCreate ==
    \/ \E quizId \in quizzesTable \cup {MissingQuiz},
          parse \in {"ok", "invalid_json", "empty_quiz_id"}, authed \in BOOLEAN :
          CreateBegin(IF parse = "empty_quiz_id" THEN "" ELSE quizId, parse, authed)
    \/ \E fail \in BOOLEAN : CreateStep(fail)
    \/ CreateReturn

SpecCreate == InitCreate /\ [][NextCreate]_vars

\* ------------------------------------------------------------------------
\* The listing pages over a store in any state that submissions, failed
\* submissions, interleaved submissions and legacy data can leave
\* ------------------------------------------------------------------------
StoredSessions ==
    {[rows |-> BagOfSeq(RowsToInsert(b)), score |-> sc, total |-> t] :
        b \in SeqsUpTo(OwnEntries, MaxLen),
        sc \in {Null} \cup {Some(n) : n \in 0..NumQuestions},
        t \in {Null} \cup {Some(n) : n \in 0..(NumQuestions + 1)}}

InitRead ==
    /\ \E own \in {x \in StoredSessions : IsNumber(x.score) => IsNumber(x.total)} :
          InitStore(own)
    /\ answerKey \in {[q \in QuizQuestions |-> q % NumOptions], [q \in QuizQuestions |-> 0]}
    /\ InitRequests

NextRead ==
    \E v \in Views :
        \/ /\ \A w \in Views \ {v} : view[w].pc \in {"idle", "done"}
           /\ \E fail \in BOOLEAN : LoadSessions(v, fail)
        \/ \E fail \in BOOLEAN : LoadSelectedOptions(v, fail)
        \/ \E failQuestions, failOptions \in BOOLEAN :
              LoadAnswers(v, failQuestions, failOptions)

SpecRead == InitRead /\ [][NextRead]_vars

\* ------------------------------------------------------------------------
\* One submission of the owner to the own session, every store call of which
\* may fail, and then the listing pages and the session's page, racing with
\* each other
\* ------------------------------------------------------------------------
NoPageOpen ==
    /\ \A v \in Views : view[v].pc = "idle"
    /\ detail.pc = "idle"

NextGrade ==
    \/ Idle(1) /\ NoPageOpen /\ \E body \in OrderedBodies :
          Begin(1, OwnSession, "ok", body, TRUE)
    \/ \E fail \in BOOLEAN : Step(1, fail)
    \/ /\ req[1].pc \in {"idle", "done"}
       /\ \/ NextRead
          \/ \E id \in {OwnSession, OtherSession}, authed, fail \in BOOLEAN :
                DetailLoadSession(id, authed, fail)
          \/ \E fail \in BOOLEAN : DetailStep(fail)

SpecGrade == InitConc /\ [][NextGrade]_vars

\* ------------------------------------------------------------------------
\* The life of the caller's sessions when no store call of the endpoints
\* fails: one legacy session is there, one session is created through the
\* create endpoint, requests to either run one at a time to completion, and
\* the listing pages are loaded after a request has completed
\* ------------------------------------------------------------------------
InitLife ==
    /\ answerKey = [q \in QuizQuestions |-> q % NumOptions]
    /\ \E legacy \in Legacy :
          rows = [s \in Sessions |-> IF s = SecondSession THEN legacy.rows ELSE EmptyBag]
    /\ score = [s \in Sessions |-> Null]
    /\ total = [s \in Sessions |-> IF s = OtherSession THEN Some(NumQuestions) ELSE Null]
    /\ quizSessionsTable = {s \in SeededQuizSessions : s.id # OwnSession}
    /\ InitRequests

\* the answer sets in question order that give, to each question, its first
\* option or its right one
LifeBodies ==
    {b \in OrderedBodies :
        \A i \in DOMAIN b :
            b[i].optionId \in {OptionId(b[i].questionId, 0),
                               OptionId(b[i].questionId, b[i].questionId % NumOptions)}}

NoPageLoaded == \A v \in Views : view[v].pc = "idle"

NextLife ==
    \/ NoPageLoaded /\ \E quizId \in quizzesTable : CreateBegin(quizId, "ok", TRUE)
    \/ CreateStep(FALSE)
    \/ /\ Idle(1)
       /\ NoPageLoaded
       /\ \E s \in {t \in quizSessionsTable : t.user_id = Caller},
             body \in LifeBodies : Begin(1, s.id, "ok", body, TRUE)
    \/ Step(1, FALSE)
    \/ Return(1)
    \/ /\ req[1].pc \in {"idle", "done"}
       /\ create.pc \in {"idle", "done"}
       /\ \E v \in Views :
             \/ LoadSessions(v, FALSE)
             \/ LoadSelectedOptions(v, FALSE)
             \/ LoadAnswers(v, FALSE, FALSE)

SpecLife == InitLife /\ [][NextLife]_vars

\* ------------------------------------------------------------------------
\* The learner's browser: the player of the own session and the button that
\* generates a quiz, each with any response to its requests
\* ------------------------------------------------------------------------
OptionIds == {o.id : o \in optionsTable}

NextClient ==
    \/ RenderPlayer(OwnSession)
    \/ \E optionId \in OptionIds : HandleSelectOption(optionId)
    \/ HandleNext
    \/ \E response \in PlayerResponses : HandleNextSettled(response)
    \/ HandleGenerateQuiz
    \/ \E response \in ButtonResponses("Failed to generate quiz.") : GenerateSettled(response)
    \/ \E response \in ButtonResponses("Failed to save quiz.") : SaveSettled(response)

SpecClient == InitValidate /\ [][NextClient]_vars

\* every request of the button is answered or fails in the end
SpecClientFair ==
    /\ SpecClient
    /\ WF_vars(\E response \in ButtonResponses("Failed to generate quiz.") :
                  GenerateSettled(response))
    /\ WF_vars(\E response \in ButtonResponses("Failed to save quiz.") :
                  SaveSettled(response))

\* ------------------------------------------------------------------------
\* Properties of the submission endpoint
\* ------------------------------------------------------------------------
Done(r) == req[r].pc = "done"

Succeeded(r) == Done(r) /\ req[r].status = 200

Pre(r) == Val(hist[r].pre)

StoreUnchanged(r) == Store = Pre(r)

\* the position of an option among the options of its question
OptionPosition(optionId) == (CHOOSE o \in optionsTable : o.id = optionId).option_index

\* the number of submitted pairs whose option is the question's answer
Matches(body) ==
    Cardinality({i \in DOMAIN body :
        OptionPosition(body[i].optionId) = answerKey[body[i].questionId]})

\* what a submission of the body is to leave as the session's rows and score
Outcome(body) ==
    [rows |-> BagOfSeq(RowsToInsert(body)),
     score |-> IF body = <<>> THEN Null ELSE Some(Matches(body))]

RowsAndScore(sessionId) == [rows |-> rows[sessionId], score |-> score[sessionId]]

\* C1: after a successful submission of a non-empty answer set, the persisted
\* score is the number of submitted pairs whose option's option_index equals the
\* question's answer_index.
C1_ScoreIsMatchCount ==
    \A r \in Slots :
        Succeeded(r) /\ req[r].body # <<>>
            => score[req[r].sessionId] = Some(Matches(req[r].body))

C1_Witness ==
    /\ Succeeded(1)
    /\ Len(req[1].body) = NumQuestions
    /\ score[OwnSession] = Some(1)
    /\ \E q \in QuizQuestions : answerKey[q] # 0

\* C2: when a submission has ended for any reason, the session's (rows, score)
\* is entirely the pair from before the submission or entirely the pair of the
\* new submission.
C2_AtomicReplace ==
    \A r \in Slots :
        Done(r) /\ req[r].sessionId \in Sessions =>
            \/ RowsAndScore(req[r].sessionId) =
                 [rows |-> Pre(r).rows[req[r].sessionId],
                  score |-> Pre(r).score[req[r].sessionId]]
            \/ RowsAndScore(req[r].sessionId) = Outcome(req[r].body)

\* C3: after two submissions to the same session have both completed, the
\* session's rows and score are those of one of the two submissions, as if they
\* had run one after the other.
C3_Serialized ==
    Succeeded(1) /\ Succeeded(2) /\ req[1].sessionId = req[2].sessionId =>
        \E r \in Slots : RowsAndScore(req[r].sessionId) = Outcome(req[r].body)

\* C4: at most one stored row per (session, question) pair, in every state.
C4_OneRowPerQuestion ==
    \A s \in Sessions : \A q \in AllQuestions :
        BagCardinality([x \in {y \in BagToSet(rows[s]) : y[1] = q} |-> rows[s][x]]) <= 1

\* C5: a successful submission that repeats the answer set of the successful
\* submission right before it leaves the rows, the score and the total as the
\* first one left them.
C5_Idempotent ==
    \A r \in Slots : Succeeded(r) /\ hist[r].repeat => StoreUnchanged(r)

C5_Witness ==
    /\ Succeeded(1)
    /\ hist[1].repeat
    /\ Len(req[1].body) = NumQuestions
    /\ BagCardinality(rows[OwnSession]) = NumQuestions
    /\ IsNumber(score[OwnSession])

\* C6: a successful empty submission leaves the session without score and
\* without rows, with its total unchanged; the session still exists.
C6_EmptyResets ==
    \A r \in Slots :
        Succeeded(r) /\ req[r].body = <<>> =>
            /\ \E s \in quizSessionsTable : s.id = req[r].sessionId
            /\ score[req[r].sessionId] = Null
            /\ rows[req[r].sessionId] = EmptyBag
            /\ total[req[r].sessionId] = Pre(r).total[req[r].sessionId]

C6_Witness ==
    /\ Succeeded(1)
    /\ req[1].body = <<>>
    /\ Pre(1).rows[OwnSession] # EmptyBag
    /\ IsNumber(Pre(1).score[OwnSession])

\* the request is made by the owner of an existing session
ByOwner(r) ==
    req[r].authed /\ QueryQuizSession(req[r].sessionId, Caller) # {}

QuizOf(sessionId) == (CHOOSE s \in quizSessionsTable : s.id = sessionId).quiz_id

HasForeignQuestion(r) ==
    \E i \in DOMAIN req[r].body :
        ~\E q \in questionsTable :
            q.id = req[r].body[i].questionId /\ q.quiz_id = QuizOf(req[r].sessionId)

\* C7: a submission with a question that is not of the session's quiz never
\* changes the store, and ends with status 400.
C7_ForeignQuestionRejected ==
    \A r \in Slots :
        req[r].pc # "idle" /\ ByOwner(r) /\ HasForeignQuestion(r) =>
            /\ StoreUnchanged(r)
            /\ Done(r) => req[r].status = 400

C7_Witness ==
    /\ Done(1)
    /\ ByOwner(1)
    /\ HasForeignQuestion(1)
    /\ req[1].error = "One or more questions do not belong to this quiz session."
    /\ rows[OwnSession] # EmptyBag

HasOptionOfOtherQuestion(r) ==
    \E i \in DOMAIN req[r].body :
        \E o \in optionsTable :
            o.id = req[r].body[i].optionId /\ o.question_id # req[r].body[i].questionId

\* C8: a submission with an option that exists but belongs to another question
\* than the one it is given for never changes the store, and ends with status 400.
C8_MismatchedOptionRejected ==
    \A r \in Slots :
        req[r].pc # "idle" /\ ByOwner(r) /\ HasOptionOfOtherQuestion(r) =>
            /\ StoreUnchanged(r)
            /\ Done(r) => req[r].status = 400

\* the same option given for two questions, one of them its own
C8_Witness ==
    /\ Done(1)
    /\ ByOwner(1)
    /\ req[1].error = "One or more options do not belong to their provided question."
    /\ Len(req[1].body) = 2
    /\ req[1].body[1].optionId = req[1].body[2].optionId
    /\ rows[OwnSession] # EmptyBag

\* the option of a question that is not in the submission
C8_WitnessAbsentQuestion ==
    /\ Done(1)
    /\ ByOwner(1)
    /\ HasOptionOfOtherQuestion(1)
    /\ Len(req[1].body) = 1
    /\ req[1].status = 400

\* C9: a submission in which two entries have the same questionId never changes
\* the store and ends with status 400 and the message "Each question can only
\* have one selected option.", whoever the caller and whatever the session.
C9_DuplicateQuestionRejected ==
    \A r \in Slots :
        req[r].pc # "idle"
        /\ (\E i, j \in DOMAIN req[r].body :
               i # j /\ req[r].body[i].questionId = req[r].body[j].questionId)
        => /\ StoreUnchanged(r)
           /\ Done(r)
           /\ req[r].status = 400
           /\ req[r].error = "Each question can only have one selected option."

C9_Witness ==
    /\ Done(1)
    /\ Len(req[1].body) = 2
    /\ req[1].body[1].questionId = req[1].body[2].questionId
    /\ req[1].body[1].optionId # req[1].body[2].optionId
    /\ req[1].error = "Each question can only have one selected option."
    /\ rows[OwnSession] # EmptyBag

\* ------------------------------------------------------------------------
\* Properties of the listing pages
\* ------------------------------------------------------------------------
Listed(v) == view[v].pc = "done" /\ view[v].page = "list"

CountEqualsTotal(id) ==
    IsNumber(total[id]) /\ Val(total[id]) > 0 /\ BagCardinality(rows[id]) = Val(total[id])

\* C10: for a session without persisted score, both listing pages show a
\* fallback score only when total_questions is a positive number that the number
\* of the session's stored rows equals, and "Not graded yet" in every other case.
C10_FallbackOnlyWhenComplete ==
    \A v \in Views : Listed(v) =>
        \A id \in DOMAIN view[v].sessions :
            score[id] = Null =>
                /\ ScoreText(v, id).kind = "fallback" => CountEqualsTotal(id)
                /\ ~CountEqualsTotal(id) => ScoreText(v, id).kind = "Not graded yet"

C10_Witness ==
    /\ \A v \in Views : Listed(v) /\ ScoreText(v, OwnSession).kind = "fallback"
                                  /\ ScoreText(v, SecondSession).kind = "Not graded yet"
    /\ score[OwnSession] = Null
    /\ BagCardinality(rows[OwnSession]) = NumQuestions

\* more rows than the total, and a total of 0: not graded
C10_WitnessNotGraded ==
    /\ Listed("quiz_sessions")
    /\ score[OwnSession] = Null
    /\ IsNumber(total[OwnSession])
    /\ BagCardinality(rows[OwnSession]) > Val(total[OwnSession])
    /\ ScoreText("quiz_sessions", OwnSession).kind = "Not graded yet"

DistinctQuestions(body) == Cardinality({body[i].questionId : i \in DOMAIN body})

\* C12: a successful non-empty submission persists as total_questions the
\* session's total from before the request when that is a number, and the number
\* of distinct questions answered otherwise; a total that is a number is never
\* changed by any step.
C12_TotalIsSnapshot ==
    /\ [](\A r \in Slots :
            Succeeded(r) /\ req[r].body # <<>> =>
                total[req[r].sessionId] =
                    IF IsNumber(Pre(r).total[req[r].sessionId])
                    THEN Pre(r).total[req[r].sessionId]
                    ELSE Some(DistinctQuestions(req[r].body)))
    /\ [][\A s \in Sessions : IsNumber(total[s]) => total'[s] = total[s]]_vars

C12_Witness ==
    /\ Succeeded(1)
    /\ Len(req[1].body) = 1
    /\ IsNumber(Pre(1).total[OwnSession])
    /\ total[OwnSession] = Some(NumQuestions)
    /\ DistinctQuestions(req[1].body) < NumQuestions

\* a session without total gets the number of answered questions
C12_WitnessLegacy ==
    /\ Succeeded(1)
    /\ Len(req[1].body) = 1
    /\ Pre(1).total[OwnSession] = Null
    /\ total[OwnSession] = Some(1)

Attempt(sessionId) ==
    [rows |-> rows[sessionId], score |-> score[sessionId], total |-> total[sessionId]]

AttemptAtBegin(r) ==
    [rows |-> Pre(r).rows[req[r].sessionId],
     score |-> Pre(r).score[req[r].sessionId],
     total |-> Pre(r).total[req[r].sessionId]]

\* what a request leaves of its session when it is the only one to run, by the
\* store calls it has made so far
AttemptAlone(r) ==
    LET before == AttemptAtBegin(r)
        inserted == BagOfSeq(RowsToInsert(req[r].body))
        deleted ==
            \/ req[r].pc \in {"reset", "insert", "update"}
            \/ Done(r) /\ req[r].error \in {"Failed to reset quiz session score.",
                                           "Failed to save selected options.",
                                           "Failed to update quiz session score."}
            \/ Succeeded(r)
        saved ==
            \/ req[r].pc = "update"
            \/ Done(r) /\ req[r].error = "Failed to update quiz session score."
            \/ Succeeded(r)
    IN [rows |-> IF saved THEN inserted ELSE IF deleted THEN EmptyBag ELSE before.rows,
        score |-> IF ~Succeeded(r) THEN before.score
                  ELSE IF req[r].body = <<>> THEN Null ELSE Some(Matches(req[r].body)),
        total |-> IF Succeeded(r) /\ req[r].body # <<>> /\ ~IsNumber(before.total)
                  THEN Some(DistinctQuestions(req[r].body)) ELSE before.total]

\* C13: a session's rows, score and total change only at a store call of a
\* request to that session, and while one request to a session runs next to
\* requests to another session, its session is at every store call as the
\* request alone leaves it.
C13_OtherAttemptsIndependent ==
    /\ [][\A s \in Sessions :
            Attempt(s)' # Attempt(s) =>
                \E r \in Slots : req[r].sessionId = s /\ ~Idle(r) /\ req'[r] # req[r]]_vars
    /\ [](\A r \in Slots :
            ~Idle(r) /\ (\A o \in Slots \ {r} : ~Idle(o) => req[o].sessionId # req[r].sessionId)
                => Attempt(req[r].sessionId) = AttemptAlone(r))

\* both sessions hold the answers of their own request, after steps of both
C13_Witness ==
    /\ Succeeded(1) /\ Succeeded(2)
    /\ req[1].sessionId = OwnSession /\ req[2].sessionId = SecondSession
    /\ Len(req[1].body) = NumQuestions /\ Len(req[2].body) = 1
    /\ BagCardinality(rows[OwnSession]) = NumQuestions
    /\ BagCardinality(rows[SecondSession]) = 1
    /\ score[OwnSession] # score[SecondSession]

\* a failed request to one session next to a rejected request to the other
C13_WitnessFailed ==
    /\ Done(1) /\ req[1].status = 400
    /\ Done(2) /\ req[2].error = "Failed to update quiz session score."
    /\ BagCardinality(rows[SecondSession]) = NumQuestions
    /\ score[SecondSession] = Null

\* C14: no step of a listing page or of the session's page changes the rows,
\* the score or the total of any session, whichever pages are being rendered at
\* the same time.
C14_ReadsWriteNothing ==
    [][view' # view \/ detail' # detail => UNCHANGED <<rows, score, total>>]_vars

\* both listing pages have shown a fallback score and the session's page the
\* result, and the session is still without score
C14_Witness ==
    /\ \A v \in Views :
          view[v].pc = "done" /\ OwnSession \in DOMAIN view[v].fallbackScoreBySessionId
    /\ detail.pc = "done" /\ detail.page.kind = "result"
    /\ Done(1) /\ req[1].error = "Failed to update quiz session score."
    /\ score[OwnSession] = Null
    /\ BagCardinality(rows[OwnSession]) = NumQuestions

\* the (question, option) pairs of stored rows, as a submission carries them
RECURSIVE PairsOfRows(_)
PairsOfRows(sessionRows) ==
    IF sessionRows = EmptyBag THEN <<>>
    ELSE LET row == CHOOSE x \in BagToSet(sessionRows) : TRUE
             rest == IF sessionRows[row] = 1
                     THEN [x \in BagToSet(sessionRows) \ {row} |-> sessionRows[x]]
                     ELSE [sessionRows EXCEPT ![row] = @ - 1]
         IN <<Entry(row[1], row[2])>> \o PairsOfRows(rest)

\* the score the submission endpoint computes for the pairs of stored rows
WriteTimeScore(sessionId, sessionRows) ==
    LET selectedOptions == PairsOfRows(sessionRows)
        questions == QueryQuestions(QuizOf(sessionId), UniqueQuestionIds(selectedOptions))
        options == QueryOptions(UniqueOptionIds(selectedOptions),
                                UniqueQuestionIds(selectedOptions))
    IN ComputeScore(selectedOptions, questions, options)

Fallback(v) == view[v].fallbackScoreBySessionId

\* C15: a fallback score that a listing page shows for a session is the score the
\* submission endpoint computes for the session's stored (question, option)
\* pairs, and the two listing pages show the same fallback for a session.
C15_ReconcilerAgreesWithWrite ==
    /\ \A v \in Views : \A id \in DOMAIN Fallback(v) :
          Fallback(v)[id].score = WriteTimeScore(id, view[v].selectedOptions[id])
    /\ \A id \in DOMAIN Fallback("quiz_sessions") \cap DOMAIN Fallback("quizzes") :
          Fallback("quiz_sessions")[id] = Fallback("quizzes")[id]
    /\ Fallback("quiz_sessions") # <<>> /\ Fallback("quizzes") # <<>> =>
          \A id \in ListedSessions("quiz_sessions") :
              id \in DOMAIN Fallback("quiz_sessions") <=> id \in DOMAIN Fallback("quizzes")

C15_Witness ==
    /\ \A v \in Views : view[v].pc = "done" /\ OwnSession \in DOMAIN Fallback(v)
    /\ Fallback("quiz_sessions")[OwnSession].score = 1
    /\ Fallback("quizzes")[OwnSession].totalQuestions = NumQuestions
    /\ BagCardinality(rows[OwnSession]) = NumQuestions

\* what the listing of quiz sessions and the page of the session say of a
\* session: graded or not, and the score out of the total
Listing(id) ==
    LET text == ScoreText("quiz_sessions", id)
    IN [graded |-> text.kind # "Not graded yet", score |-> text.score, total |-> text.total]

Detail ==
    [graded |-> detail.page.kind = "result",
     score |-> detail.page.score, total |-> detail.page.total]

BothPagesShown ==
    /\ view["quiz_sessions"].pc = "done" /\ view["quiz_sessions"].page = "list"
    /\ detail.pc = "done" /\ detail.page.kind \in {"result", "player"}

\* C16: once the listing and the session's page have been rendered for a
\* session, both show it as graded or both as not graded, with the same score
\* and total, and with the persisted score and total when the session has a
\* score.
C16_ViewsConsistent ==
    BothPagesShown =>
        LET id == Val(detail.quizSession).id
        IN /\ Listing(id) = Detail
           /\ score[id] # Null /\ total[id] # Null =>
                 Detail = [graded |-> TRUE, score |-> Val(score[id]),
                           total |-> Val(total[id])]

\* after a successful submission of some but not all questions the listing
\* shows the persisted score and the session's page shows the player
C16_SubsetGradedInListingOnly ==
    /\ BothPagesShown
    /\ Succeeded(1)
    /\ req[1].body # <<>> /\ DistinctQuestions(req[1].body) < NumQuestions
    /\ Val(detail.quizSession).id = OwnSession
    /\ ScoreText("quiz_sessions", OwnSession).kind = "persisted"
    /\ detail.page.kind = "player"

\* ------------------------------------------------------------------------
\* Order of the checks of the submission endpoint
\* ------------------------------------------------------------------------
\* the body was parsed and has the shape of an answer set
WellFormed(r) == req[r].error \notin {"Invalid JSON body.", "Invalid request body."}

RepeatsQuestion(r) ==
    \E i, j \in DOMAIN req[r].body :
        i # j /\ req[r].body[i].questionId = req[r].body[j].questionId

\* an option that does not exist or is of another question than it is given for
GivesOptionOfNoOrOtherQuestion(r) ==
    \E i \in DOMAIN req[r].body :
        ~\E o \in optionsTable :
            o.id = req[r].body[i].optionId /\ o.question_id = req[r].body[i].questionId

\* an option that does not exist or is of a question that is not submitted
GivesOptionOutsideSubmission(r) ==
    \E i \in DOMAIN req[r].body :
        ~\E o \in optionsTable, j \in DOMAIN req[r].body :
            o.id = req[r].body[i].optionId /\ o.question_id = req[r].body[j].questionId

\* C17: a well-formed request of a caller who is not authenticated ends with
\* 401, and one of an authenticated caller to a session that is not theirs ends
\* with 404, whatever the body.
C17_GuardBeforeValidation ==
    \A r \in Slots :
        Done(r) /\ WellFormed(r) =>
            /\ ~req[r].authed => req[r].status = 401
            /\ req[r].authed /\ QueryQuizSession(req[r].sessionId, Caller) = {}
                  => req[r].status = 404

RuleOfError(error) ==
    CASE error = "Each question can only have one selected option." -> "DuplicateQuestion"
      [] error = "One or more questions do not belong to this quiz session." -> "ForeignQuestion"
      [] error \in {"One or more options do not match the provided questions.",
                    "One or more options do not belong to their provided question."}
            -> "MismatchedOption"
      [] OTHER -> "none"

EarliestViolatedRule(r) ==
    IF RepeatsQuestion(r) THEN "DuplicateQuestion"
    ELSE IF HasForeignQuestion(r) THEN "ForeignQuestion"
    ELSE IF GivesOptionOfNoOrOtherQuestion(r) THEN "MismatchedOption"
    ELSE "none"

\* C18: the error of a well-formed submission of the owner is the one of the
\* first rule that the body violates, in the order duplicate question, foreign
\* question, mismatched option; a body that violates none is accepted.
C18_EarliestRuleDecides ==
    \A r \in Slots :
        Done(r) /\ WellFormed(r) /\ ByOwner(r) =>
            /\ RuleOfError(req[r].error) = EarliestViolatedRule(r)
            /\ req[r].status = IF EarliestViolatedRule(r) = "none" THEN 200 ELSE 400

\* a foreign question with a mismatched option gets the foreign-question message
C18_Witness ==
    /\ Done(1) /\ ByOwner(1)
    /\ ~RepeatsQuestion(1) /\ HasForeignQuestion(1) /\ GivesOptionOfNoOrOtherQuestion(1)
    /\ req[1].error = "One or more questions do not belong to this quiz session."

\* a duplicate foreign question gets the duplicate-question message
C18_WitnessDuplicate ==
    /\ Done(1) /\ ByOwner(1)
    /\ RepeatsQuestion(1) /\ HasForeignQuestion(1)
    /\ req[1].error = "Each question can only have one selected option."

MismatchedOptionOnly(r) ==
    /\ Done(r) /\ WellFormed(r) /\ ByOwner(r)
    /\ ~RepeatsQuestion(r) /\ ~HasForeignQuestion(r)
    /\ GivesOptionOfNoOrOtherQuestion(r)

\* C19 as claimed: every rejection for a mismatched option is a 400 with the
\* message "One or more options do not belong to their provided question.".
C19_SingleMessage ==
    \A r \in Slots :
        MismatchedOptionOnly(r) =>
            /\ req[r].status = 400
            /\ req[r].error = "One or more options do not belong to their provided question."

\* C19 amended: every rejection for a mismatched option is a 400; its message is
\* "One or more options do not match the provided questions." when an option
\* does not exist or is of a question that is not submitted, and "One or more
\* options do not belong to their provided question." otherwise.
C19_TwoMessages ==
    \A r \in Slots :
        MismatchedOptionOnly(r) =>
            /\ req[r].status = 400
            /\ req[r].error =
                 IF GivesOptionOutsideSubmission(r)
                 THEN "One or more options do not match the provided questions."
                 ELSE "One or more options do not belong to their provided question."

\* an option that does not exist
C19_Witness ==
    /\ MismatchedOptionOnly(1)
    /\ \E i \in DOMAIN req[1].body : req[1].body[i].optionId = MissingOption
    /\ req[1].error = "One or more options do not match the provided questions."

\* an option of a question of the quiz that is not submitted
C19_WitnessAbsentQuestion ==
    /\ MismatchedOptionOnly(1)
    /\ Len(req[1].body) = 1
    /\ \E o \in optionsTable :
          o.id = req[1].body[1].optionId /\ o.question_id \in QuizQuestions
    /\ req[1].error = "One or more options do not match the provided questions."

\* an option of another submitted question
C19_WitnessOtherQuestion ==
    /\ MismatchedOptionOnly(1)
    /\ ~GivesOptionOutsideSubmission(1)
    /\ req[1].error = "One or more options do not belong to their provided question."

\* ------------------------------------------------------------------------
\* Store failures of the submission endpoint
\* ------------------------------------------------------------------------
FailureMessage(step) ==
    CASE step = "session" -> "Failed to verify quiz session."
      [] step = "questions" -> "Failed to validate questions."
      [] step = "options" -> "Failed to validate options."
      [] step = "delete" -> "Failed to reset selected options for this session."
      [] step = "reset" -> "Failed to reset quiz session score."
      [] step = "insert" -> "Failed to save selected options."
      [] step = "update" -> "Failed to update quiz session score."

LastCall(r) == hist[r].calls[Len(hist[r].calls)]

\* C20: once a store call of a request has failed, the request has ended with
\* status 500 and the message of that call, which is its last call; a request
\* makes no store call twice; 500 is only the answer to a failed call; and a
\* failure of the session lookup, of the question read or of the option read
\* leaves rows, score and total as before the request.
C20_StoreFailureIs500 ==
    \A r \in Slots :
        /\ \A i, j \in DOMAIN hist[r].calls : i # j => hist[r].calls[i] # hist[r].calls[j]
        /\ hist[r].failed =>
              /\ Done(r)
              /\ req[r].status = 500
              /\ req[r].error = FailureMessage(LastCall(r))
              /\ LastCall(r) \in {"session", "questions", "options"} => StoreUnchanged(r)
        /\ Done(r) /\ req[r].status = 500 => hist[r].failed

\* the option read fails for a session that has answers and a score
C20_Witness ==
    /\ Done(1)
    /\ hist[1].failed
    /\ hist[1].calls = <<"session", "questions", "options">>
    /\ req[1].error = "Failed to validate options."
    /\ rows[OwnSession] # EmptyBag
    /\ score[OwnSession] # Null

\* the score update fails after the delete and the insert
C20_WitnessUpdate ==
    /\ Done(1)
    /\ hist[1].failed
    /\ hist[1].calls = <<"session", "questions", "options", "delete", "insert", "update">>
    /\ req[1].status = 500
    /\ req[1].error = "Failed to update quiz session score."

\* ------------------------------------------------------------------------
\* Properties of the create-session endpoint
\* ------------------------------------------------------------------------
Created201 == create.pc = "done" /\ create.status = 201

\* the request was parsed, the caller is known and no store call has failed
CreateServed ==
    /\ create.pc = "done"
    /\ create.error \notin {"Invalid JSON body.", "quizId is required."}
    /\ create.authed
    /\ ~create.failed

QuestionsOfQuiz(quizId) == {q.id : q \in {x \in questionsTable : x.quiz_id = quizId}}

\* C21: a session that the create-session endpoint has created belongs to the
\* caller and the quiz, has the number of questions of the quiz as its total, no
\* score and no selected options; a served request for a quiz that exists creates
\* one, a served request for a quiz that does not exist ends with 404, and the
\* table only grows by one session of an existing quiz at a 201.
C21_CreatedAttempt ==
    /\ [](/\ Created201 =>
              LET id == Val(create.session)
              IN /\ [id |-> id, user_id |-> Caller, quiz_id |-> create.quizId]
                        \in quizSessionsTable
                 /\ total[id] = Some(Cardinality(QuestionsOfQuiz(create.quizId)))
                 /\ score[id] = Null
                 /\ rows[id] = EmptyBag
          /\ CreateServed =>
                create.status = IF create.quizId \in quizzesTable THEN 201 ELSE 404)
    /\ [][quizSessionsTable' # quizSessionsTable =>
             /\ create'.status = 201
             /\ create.quizId \in quizzesTable
             /\ quizSessionsTable \subseteq quizSessionsTable'
             /\ Cardinality(quizSessionsTable') = Cardinality(quizSessionsTable) + 1]_vars

C21_Witness ==
    /\ Created201
    /\ create.quizId = "quizA"
    /\ total[Val(create.session)] = Some(NumQuestions)
    /\ Cardinality({s \in quizSessionsTable : s.user_id = Caller}) = 2

C21_WitnessMissingQuiz ==
    /\ CreateServed
    /\ create.quizId = MissingQuiz
    /\ create.error = "Quiz not found."
    /\ \E s \in quizSessionsTable : s.user_id = Caller

\* ------------------------------------------------------------------------
\* Life of a quiz session
\* ------------------------------------------------------------------------
\* C22: whatever earlier submissions, also failed ones, have left of a session,
\* a submission of its owner with a valid answer set that meets no store failure
\* is accepted, and after a successful submission the session has a score
\* exactly when the answer set was not empty.
C22_AlwaysResubmittable ==
    \A r \in Slots :
        /\ Done(r) /\ ~hist[r].failed => req[r].status = 200
        /\ Succeeded(r) => (score[req[r].sessionId] # Null <=> req[r].body # <<>>)

\* a part of the questions is accepted for a session that has a score and all
\* answers
C22_Witness ==
    /\ Succeeded(1)
    /\ IsNumber(Pre(1).score[OwnSession])
    /\ BagCardinality(Pre(1).rows[OwnSession]) = NumQuestions
    /\ Len(req[1].body) = 1
    /\ NumQuestions > 1
    /\ score[OwnSession] # Null

\* accepted for a session that a failed submission has left without rows
C22_WitnessAfterFailure ==
    /\ Succeeded(1)
    /\ Pre(1).rows[OwnSession] = EmptyBag
    /\ IsNumber(Pre(1).score[OwnSession])
    /\ req[1].body # <<>>

\* C23: every stored row of a session has a question of the session's quiz and
\* an option of that question.
C23_RowsReferToQuiz ==
    \A s \in quizSessionsTable : \A row \in BagToSet(rows[s.id]) :
        /\ \E q \in questionsTable : q.id = row[1] /\ q.quiz_id = s.quiz_id
        /\ \E o \in optionsTable : o.id = row[2] /\ o.question_id = row[1]

\* rows are stored, and a request with a valid entry and then an option of
\* another submitted question has been rejected
C23_Witness ==
    /\ Done(1)
    /\ req[1].error = "One or more options do not belong to their provided question."
    /\ Len(req[1].body) = 2
    /\ req[1].body[1] \in OwnEntries
    /\ BagCardinality(rows[OwnSession]) = NumQuestions

\* C24: a listing page of which a reconciliation read (the selected options, the
\* answer key or the option positions) has failed still shows the list, and
\* shows every session without score as "Not graded yet".
C24_ReconciliationFailureDegrades ==
    \A v \in Views :
        view[v].failed =>
            /\ view[v].pc = "done"
            /\ view[v].page = "list"
            /\ \A id \in SessionsMissingScore(view[v].sessions) :
                  ScoreText(v, id).kind = "Not graded yet"

\* the answer key could not be read for a session whose rows are complete
C24_Witness ==
    /\ \A v \in Views : view[v].failed
    /\ view["quiz_sessions"].selectedOptions # <<>>
    /\ BagCardinality(view["quiz_sessions"].selectedOptions[OwnSession]) = NumQuestions
    /\ total[OwnSession] = Some(NumQuestions)
    /\ score[OwnSession] = Null
    /\ view["quizzes"].selectedOptions = <<>>

\* ------------------------------------------------------------------------
\* The caller's sessions between two requests
\* ------------------------------------------------------------------------
Quiescent == req[1].pc \in {"idle", "done"}

NumRows(id) == BagCardinality(rows[id])

\* C25: when requests run one at a time to completion and no store call
\* fails, a session created through the create endpoint has, between two
\* requests, no score exactly when it has no stored rows, and no listing page
\* ever computes a fallback score for it
C25_CreatedScoreNullIffNoRows ==
    create.session # Null =>
        LET id == Val(create.session)
        IN /\ Quiescent => (score[id] = Null <=> NumRows(id) = 0)
           /\ \A v \in Views : id \notin DOMAIN Fallback(v)

C25_Witness ==
    /\ create.session # Null
    /\ req[1].pc = "done"
    /\ req[1].status = 200
    /\ req[1].sessionId = Val(create.session)
    /\ req[1].body = <<>>
    /\ Val(hist[1].pre).score[Val(create.session)] = Some(NumQuestions)
    /\ \A v \in Views :
          /\ view[v].pc = "done"
          /\ Val(create.session) \in SessionsMissingScore(view[v].sessions)
          /\ view[v].selectedOptions # <<>>

CallerSessions == {s.id : s \in {t \in quizSessionsTable : t.user_id = Caller}}

Graded(id) == score[id] # Null /\ total[id] # Null

\* C26 as stated: after successful sequential requests, a session of the
\* caller, created or legacy, that has a score and a total has
\* 0 <= score <= number of stored rows <= total
C26_ScoreRowsTotal ==
    Quiescent =>
        \A id \in CallerSessions :
            Graded(id) =>
                /\ 0 <= Val(score[id])
                /\ Val(score[id]) <= NumRows(id)
                /\ NumRows(id) <= Val(total[id])

\* C26 amended: after successful sequential requests, a session of the caller
\* that has a score and a total has 0 <= score <= number of stored rows; the
\* number of stored rows is at most the total for the session created through
\* the create endpoint, whose total is the question count of its quiz
C26_ScoreRowsTotalOfCreated ==
    Quiescent =>
        \A id \in CallerSessions :
            Graded(id) =>
                /\ 0 <= Val(score[id])
                /\ Val(score[id]) <= NumRows(id)
                /\ create.session = Some(id) => NumRows(id) <= Val(total[id])

C26_Witness ==
    /\ Quiescent
    /\ create.session # Null
    /\ Graded(Val(create.session))
    /\ NumRows(Val(create.session)) = Val(total[Val(create.session)])
    /\ Graded(SecondSession)
    /\ NumRows(SecondSession) > Val(total[SecondSession])
    /\ Val(score[SecondSession]) > Val(total[SecondSession])

\* ------------------------------------------------------------------------
\* Properties of the player and of the button
\* ------------------------------------------------------------------------
\* one pair for every question of the player, in their order, each with an
\* option of its question
OnePairPerQuestion(body) ==
    /\ Len(body) = Len(player.questions)
    /\ \A i \in DOMAIN body :
          /\ body[i].questionId = player.questions[i].id
          /\ body[i].optionId \in player.questions[i].options

\* C27: the index of the player's current question is one of its questions'
\* and moves only by one and only from a question with a selection; every
\* request sent carries one pair per question with an option of that question;
\* the error "Please answer every question before finishing." is never raised
C27_PlayerSendsEveryAnswer ==
    /\ [](player.mounted =>
            /\ player.currentQuestionIndex \in 0..(Len(player.questions) - 1)
            /\ \A i \in DOMAIN player.fetches : OnePairPerQuestion(player.fetches[i])
            /\ player.errorMessage #
                  Some("Please answer every question before finishing."))
    /\ [][player'.currentQuestionIndex # player.currentQuestionIndex =>
            /\ player'.currentQuestionIndex = player.currentQuestionIndex + 1
            /\ SelectedOptionId # Null]_vars

C27_Witness ==
    /\ player.fetches # <<>>
    /\ player.currentQuestionIndex = NumQuestions - 1
    /\ \E i \in DOMAIN player.fetches[1] :
          player.fetches[1][i].optionId # OptionId(player.fetches[1][i].questionId, 0)

\* C28: at most one request of the player is in flight; isSubmitting is set
\* exactly while one is; a request is sent only when none is in flight, and
\* when a request settles, with a response or a thrown error, isSubmitting is
\* false
C28_OneSubmissionInFlight ==
    /\ [](/\ Len(player.fetches) <= 1
          /\ player.isSubmitting <=> player.fetches # <<>>)
    /\ [][/\ Len(player'.fetches) > Len(player.fetches) =>
                ~player.isSubmitting /\ player.fetches = <<>>
          /\ Len(player'.fetches) < Len(player.fetches) => ~player'.isSubmitting]_vars

C28_Witness ==
    /\ player.fetches # <<>>
    /\ player.isSubmitting
    /\ player.replaced
    /\ SelectedOptionId # Null
    /\ IsLastQuestion

\* the response is there and is an ok response
IsOk(response) == response # Null /\ ~Val(response).threw /\ Val(response).ok

\* C29: the save request of a click is sent only after its generate request
\* got an ok response; the quiz page is pushed only after its save request
\* got an ok response with a quizId, and it is the page of that quiz; a step
\* that fails leaves an error message and no later step of the click is
\* taken; isGenerating, once set, is false again in the end
C29_GenerateSaveNavigate ==
    /\ [](/\ button.pc = "save" => IsOk(button.generateResponse)
          /\ button.saveResponse # Null => IsOk(button.generateResponse)
          /\ button.pushed # Null =>
                /\ IsOk(button.saveResponse)
                /\ Val(button.saveResponse).quizId = button.pushed
          /\ (button.generateResponse # Null /\ ~IsOk(button.generateResponse)) =>
                /\ button.errorMessage # Null
                /\ button.pc = "idle"
                /\ button.saveResponse = Null
                /\ button.pushed = Null
          /\ (button.saveResponse # Null /\ ~IsOk(button.saveResponse)) =>
                /\ button.errorMessage # Null
                /\ button.pc = "idle"
                /\ button.pushed = Null
          /\ button.isGenerating <=> button.pc # "idle")
    /\ (button.isGenerating ~> ~button.isGenerating)

C29_Witness ==
    /\ button.pushed = Some("quizC")
    /\ ~button.isGenerating
    /\ button.errorMessage = Null

C29_WitnessFailure ==
    /\ IsOk(button.generateResponse)
    /\ button.saveResponse = Some(Response(FALSE, Null, Null))
    /\ button.errorMessage = Some("Failed to save quiz.")
    /\ ~button.isGenerating

====
